---- MODULE Spec2Model ----
(***************************************************************************)
(* epub2md: conversion of one EPUB file to Markdown (src/main.rs).         *)
(*                                                                         *)
(* main() takes the command line, convert_epub_to_md() runs the pipeline   *)
(*   check_pandoc -> extension check / path derivation -> pandoc           *)
(*   -> read temp_epub.html -> parse_html -> write Markdown -> remove      *)
(* Every invocation of the program is one process p.  The file system is   *)
(* the only state shared between invocations.  Paths are sequences of      *)
(* one-character strings so that extension(), file_name() and              *)
(* trim_end_matches() are computed character by character.                 *)
(***************************************************************************)
EXTENDS Integers, Sequences, FiniteSets, TLC

\* Number of invocations of the program that are run one after the other.
MaxRuns == 2
\* Number of invocations that run at the same time in the concurrent system.
MaxConc == 2
\* Number of invocations, one after the other, in the system with fairness.
MaxLiveRuns == 1

----------------------------------------------------------------------------
(* Strings *)

NoneStr == [some |-> FALSE, val |-> <<>>]
SomeStr(s) == [some |-> TRUE, val |-> s]

EndsWith(s, pat) ==
    /\ Len(s) >= Len(pat)
    /\ SubSeq(s, Len(s) - Len(pat) + 1, Len(s)) = pat

\* Index of the last occurrence of character c in s, 0 when there is none.
LastIndexOf(s, c) ==
    LET at == {i \in 1..Len(s) : s[i] = c}
    IN  IF at = {} THEN 0 ELSE CHOOSE i \in at : \A j \in at : j <= i

DotEpub == <<".", "e", "p", "u", "b">>
ExtEpub == <<"e", "p", "u", "b">>
DotMd == <<".", "m", "d">>
TempName == <<"t", "e", "m", "p", "_", "e", "p", "u", "b", ".", "h", "t", "m", "l">>

\* str::trim_end_matches: every trailing repetition of pat is removed.
RECURSIVE trim_end_matches(_, _)
trim_end_matches(s, pat) ==
    IF Len(pat) > 0 /\ EndsWith(s, pat)
    THEN trim_end_matches(SubSeq(s, 1, Len(s) - Len(pat)), pat)
    ELSE s

----------------------------------------------------------------------------
(* std::path *)

\* The path without the trailing separators and trailing "/." components that
\* Path::components() skips; a path made of separators only stays "/".
RECURSIVE StripTrailing(_)
StripTrailing(p) ==
    IF Len(p) >= 2 /\ p[Len(p)] = "/" THEN StripTrailing(SubSeq(p, 1, Len(p) - 1))
    ELSE IF Len(p) >= 2 /\ EndsWith(p, <<"/", ".">>) THEN StripTrailing(SubSeq(p, 1, Len(p) - 1))
    ELSE p

\* A variant that takes what follows the last separator, so that a path ending
\* in a separator has no file name.
FileNameAfterLastSeparator(p) ==
    LET last == SubSeq(p, LastIndexOf(p, "/") + 1, Len(p))
    IN  IF last = <<>> \/ last = <<".">> \/ last = <<".", ".">>
        THEN NoneStr
        ELSE SomeStr(last)

\* Path::file_name: the last component when it is a normal one.
file_name(p) ==
    LET q == StripTrailing(p)
        last == SubSeq(q, LastIndexOf(q, "/") + 1, Len(q))
    IN  IF last = <<>> \/ last = <<".">> \/ last = <<".", ".">>
        THEN NoneStr
        ELSE SomeStr(last)

\* Path::extension: the part of the file name after its last ".", none when the
\* name has no "." or only a leading one.
extension(p) ==
    LET f == file_name(p)
        i == LastIndexOf(f.val, ".")
    IN  IF ~f.some \/ i <= 1 THEN NoneStr
        ELSE SomeStr(SubSeq(f.val, i + 1, Len(f.val)))

\* Path::join: an absolute argument replaces the base.
join(base, p) ==
    IF Len(p) > 0 /\ p[1] = "/" THEN p
    ELSE IF Len(base) > 0 /\ base[Len(base)] = "/" THEN base \o p
    ELSE base \o <<"/">> \o p

\* The working directory of every invocation.
current_dir == <<"/", "w", "o", "r", "k">>

\* The file a path handed to the operating system names: relative paths are
\* taken from the working directory.
Resolve(p) == join(current_dir, p)

----------------------------------------------------------------------------
(* File contents *)

\* A file: absent, or present with its bytes.  fmt tells a zip container
\* ("epub", not UTF-8 text) from UTF-8 text; data is the content, a sequence of
\* chapters, HTML blocks or Markdown lines.
Absent == [exists |-> FALSE, fmt |-> "none", data |-> <<>>]
EpubFile(book) == [exists |-> TRUE, fmt |-> "epub", data |-> book]
TextFile(text) == [exists |-> TRUE, fmt |-> "text", data |-> text]

\* Books: chapters of <<heading, paragraph>>.
Book1 == << <<"Title", "Hello">> >>
Book2 == << <<"Other", "World">> >>
OldMd == << <<"old">> >>

\* What pandoc renders for a book: <h1>heading</h1><p>paragraph</p> per chapter.
RECURSIVE EpubToHtml(_)
EpubToHtml(book) ==
    IF book = <<>> THEN <<>>
    ELSE << <<"h1", book[1][1]>>, <<"p", book[1][2]>> >> \o EpubToHtml(Tail(book))

\* One HTML block as a Markdown line: <h1>t</h1> is "# t", <p>t</p> is "t";
\* anything that is no element is text and stays.
MarkdownLine(b) ==
    IF Len(b) = 2 /\ b[1] = "h1" THEN <<"#", b[2]>>
    ELSE IF Len(b) = 2 /\ b[1] = "p" THEN <<b[2]>>
    ELSE b

\* html2md::parse_html: the blocks as Markdown lines, a blank line between them.
RECURSIVE parse_html(_)
parse_html(html) ==
    IF html = <<>> THEN <<>>
    ELSE IF Len(html) = 1 THEN <<MarkdownLine(html[1])>>
    ELSE <<MarkdownLine(html[1]), <<>> >> \o parse_html(Tail(html))

\* A variant that drops text that is not valid UTF-8.
Utf8OrNothing(bytes) ==
    IF \E i \in 1..Len(bytes) : bytes[i] = "0xFF" THEN <<>> ELSE bytes

\* String::from_utf8_lossy: an invalid byte becomes U+FFFD.
from_utf8_lossy(bytes) ==
    [i \in 1..Len(bytes) |-> IF bytes[i] = "0xFF" THEN "U+FFFD" ELSE bytes[i]]

----------------------------------------------------------------------------
(* Command lines *)

InBook == <<"b", "o", "o", "k", ".", "e", "p", "u", "b">>
InDouble == <<"a", ".", "e", "p", "u", "b", ".", "e", "p", "u", "b">>
InTxt == <<"n", "o", "t", "e", "s", ".", "t", "x", "t">>
InUpper == <<"b", "o", "o", "k", ".", "E", "P", "U", "B">>
InNoExt == <<"b", "o", "o", "k">>
InSub == <<"d", "i", "r", "/", "b", "o", "o", "k", ".", "e", "p", "u", "b">>
InDotfile == <<".", "e", "p", "u", "b">>
InEmpty == <<>>
InDirSlash == <<"d", "i", "r", "/">>
InBookSlash == <<"b", "o", "o", "k", ".", "e", "p", "u", "b", "/">>
InParent == <<"d", "i", "r", "/", ".", ".">>

OutMd == <<"o", "u", "t", ".", "m", "d">>

InputPaths ==
    {InBook, InDouble, InTxt, InUpper, InNoExt, InSub, InDotfile, InEmpty,
     InDirSlash, InBookSlash, InParent}

\* Output arguments: an ordinary one, the name of the intermediate file, the
\* name of the input file.
OutputPaths == {OutMd, TempName, InBook}

\* args without the program name: nothing, <input>, or <input> <output>.
ArgLists ==
    {<<>>} \cup {<<i>> : i \in InputPaths}
           \cup {<<i, o>> : i \in InputPaths, o \in OutputPaths}

\* The command lines of the invocations that overlap in time.
ConcArgLists == {<<InBook>>, <<InDouble>>}

----------------------------------------------------------------------------
(* The file system: the files that exist, by absolute path *)

FileAt(f, path) == IF path \in DOMAIN f THEN f[path] ELSE Absent

\* The file system with the file at path created or replaced.
Put(f, path, file) ==
    [q \in DOMAIN f \cup {path} |-> IF q = path THEN file ELSE f[q]]

\* The file system with the file at path unlinked.
Unlink(f, path) == [q \in DOMAIN f \ {path} |-> f[q]]

InitialFs ==
    [path \in {Resolve(InBook), Resolve(InDouble), Resolve(InSub), Resolve(OutMd)} |->
        IF path = Resolve(InBook) THEN EpubFile(Book1)
        ELSE IF path = Resolve(InDouble) THEN EpubFile(Book2)
        ELSE IF path = Resolve(InSub) THEN EpubFile(Book2)
        ELSE TextFile(OldMd)]

\* What pandoc writes to its standard error when it fails.
Stderrs == {<<"b", "a", "d">>, <<"b", "0xFF">>}

----------------------------------------------------------------------------
(* State *)

VARIABLES
    fs,             \* the file system shared by all invocations
    pc,             \* where each invocation is in main / convert_epub_to_md
    args,           \* its command line without the program name
    html_path,      \* its intermediate path
    md_path,        \* its output path
    html_content,   \* the text it read from the intermediate file
    result,         \* what convert_epub_to_md / main returned
    log,            \* history: the side effects it attempted, in order
    spawned,        \* history: the subprocesses it started, in order
    pre,            \* history: the file system when the latest invocation started
    produced,       \* history: the HTML pandoc wrote for it
    captured,       \* history: the bytes pandoc wrote to stderr when it
                    \* exited with failure
    last            \* history: the run that ended last, when it derived its
                    \* output path and returned Ok: its command line and the
                    \* Markdown it left

vars ==
    <<fs, pc, args, html_path, md_path, html_content, result, log, spawned,
      pre, produced, captured, last>>

Procs == DOMAIN pc

NoResult == [kind |-> "none", msg |-> <<>>]
Ok == [kind |-> "Ok", msg |-> <<>>]
Err(kind, msg) == [kind |-> kind, msg |-> msg]

NoLast == [args |-> <<>>, md |-> Absent]

InitFor(n) ==
    /\ fs = InitialFs
    /\ pc = [p \in 1..n |-> "idle"]
    /\ args = [p \in 1..n |-> <<>>]
    /\ html_path = [p \in 1..n |-> <<>>]
    /\ md_path = [p \in 1..n |-> <<>>]
    /\ html_content = [p \in 1..n |-> <<>>]
    /\ result = [p \in 1..n |-> NoResult]
    /\ log = [p \in 1..n |-> <<>>]
    /\ spawned = [p \in 1..n |-> <<>>]
    /\ pre = InitialFs
    /\ produced = [p \in 1..n |-> Absent]
    /\ captured = [p \in 1..n |-> <<>>]
    /\ last = NoLast

Init == InitFor(MaxRuns)
InitConc == InitFor(MaxConc)
InitLive == InitFor(MaxLiveRuns)

Effect(step, ok) == [step |-> step, ok |-> ok]

\* A variant that starts the pipeline again instead of returning.
ReturnAndRetry(p, r) ==
    /\ result' = [result EXCEPT ![p] = r]
    /\ pc' = [pc EXCEPT ![p] = "check_pandoc"]

\* convert_epub_to_md returns e (or main returns UsageError).
Return(p, r) ==
    /\ result' = [result EXCEPT ![p] = r]
    /\ pc' = [pc EXCEPT ![p] = "done"]

Goto(p, label) ==
    /\ pc' = [pc EXCEPT ![p] = label]
    /\ UNCHANGED result

----------------------------------------------------------------------------
(* Steps of main and convert_epub_to_md *)

\* main: fewer than two args (program name included) is a usage error and
\* convert_epub_to_md is not called.
MainStep(p, argv) ==
    /\ pc[p] = "idle"
    /\ args' = [args EXCEPT ![p] = argv]
    /\ pre' = fs
    /\ IF Len(argv) + 1 < 2
       THEN Return(p, Err("UsageError", <<>>))
       ELSE Goto(p, "check_pandoc")
    /\ UNCHANGED <<fs, html_path, md_path, html_content, log, spawned, produced, captured, last>>

\* Invocations that follow one another: p starts when all before it have ended.
Main(p) ==
    /\ \A q \in Procs : q < p => pc[q] = "exited"
    /\ \E argv \in ArgLists : MainStep(p, argv)

\* Invocations that overlap; they are numbered in the order they start.
MainConc(p) ==
    /\ \A q \in Procs : q < p => pc[q] # "idle"
    /\ \E argv \in ConcArgLists : MainStep(p, argv)

epub_path_str(p) == args[p][1]
md_path_str(p) == IF Len(args[p]) >= 2 THEN SomeStr(args[p][2]) ELSE NoneStr

\* A variant that takes any exit of `pandoc --version` for success.
AnyExitIsSuccess(outcome) == outcome \in {"ok", "exit_fail"}

\* check_pandoc is Ok only when the child was spawned, waited for, and its
\* status is success.
CheckSucceeds(outcome) == outcome = "ok"

CheckOutcomes == {"spawn_err", "wait_err", "exit_fail", "ok"}

\* check_pandoc, and the early return of convert_epub_to_md on its error.
CheckPandoc(p) ==
    /\ pc[p] = "check_pandoc"
    /\ \E outcome \in CheckOutcomes :
        /\ spawned' = [spawned EXCEPT ![p] =
                          IF outcome = "spawn_err" THEN @ ELSE Append(@, "version")]
        /\ log' = [log EXCEPT ![p] = Append(@, Effect("dep_check", outcome = "ok"))]
        /\ IF CheckSucceeds(outcome)
           THEN Goto(p, "resolve")
           ELSE Return(p, Err("PandocCheckError", <<outcome>>))
    /\ UNCHANGED <<fs, args, html_path, md_path, html_content, pre, produced, captured, last>>

\* A variant of the extension check that ignores case.
ExtensionIsEpubAnyCase(path) ==
    extension(path) \in {SomeStr(ExtEpub), SomeStr(<<"E", "P", "U", "B">>)}

\* epub_path.extension().and_then(|s| s.to_str()) == Some("epub")
ExtensionIsEpub(path) == extension(path) = SomeStr(ExtEpub)

\* A variant that derives the output name from the input even when an output
\* path was supplied.
MdPathAlwaysDerived(input, out) ==
    LET name == file_name(input)
    IN  IF ~name.some THEN NoneStr
        ELSE SomeStr(join(current_dir, trim_end_matches(name.val, DotEpub) \o DotMd))

\* md_path: the supplied path as it is, or the working directory joined with
\* the file name, its ".epub" endings trimmed, plus ".md"; none when the input
\* has no file name.
MdPath(input, out) ==
    IF out.some THEN SomeStr(out.val)
    ELSE LET name == file_name(input)
         IN  IF ~name.some THEN NoneStr
             ELSE SomeStr(join(current_dir, trim_end_matches(name.val, DotEpub) \o DotMd))

\* A variant that names the intermediate file after the input.
HtmlPathPerInput(input) ==
    join(current_dir, file_name(input).val \o <<".", "h", "t", "m", "l">>)

\* html_path: temp_epub.html in the working directory, whatever the input.
HtmlPath(input) == join(current_dir, TempName)

\* The extension check, env::current_dir(), html_path and md_path.
ResolvePaths(p) ==
    /\ pc[p] = "resolve"
    /\ \E cwd_ok \in BOOLEAN :
        LET md == MdPath(epub_path_str(p), md_path_str(p))
        IN  IF ~ExtensionIsEpub(epub_path_str(p))
            THEN /\ Return(p, Err("InputError", <<"extension">>))
                 /\ UNCHANGED <<html_path, md_path>>
            ELSE IF ~cwd_ok
            THEN /\ Return(p, Err("FileIOError", <<"current_dir">>))
                 /\ UNCHANGED <<html_path, md_path>>
            ELSE IF ~md.some
            THEN /\ Return(p, Err("InputError", <<"file_name">>))
                 /\ html_path' = [html_path EXCEPT ![p] = HtmlPath(epub_path_str(p))]
                 /\ UNCHANGED md_path
            ELSE /\ Goto(p, "pandoc")
                 /\ html_path' = [html_path EXCEPT ![p] = HtmlPath(epub_path_str(p))]
                 /\ md_path' = [md_path EXCEPT ![p] = md.val]
    /\ UNCHANGED <<fs, args, html_content, log, spawned, pre, produced, captured, last>>

\* A variant that does not look at the exit status of the conversion.
StatusIgnored(outcome) == outcome \in {"ok", "exit_fail"}

\* pandoc_output.status.success()
StatusSuccess(outcome) == outcome = "ok"

PandocOutcomes == {"spawn_err", "exit_fail", "ok"}

\* `pandoc <epub_path> -o <html_path>`: it exits with success only for an EPUB
\* file it can read, and has then written the rendering to html_path.  The
\* captured stderr matters only when it exits with failure; otherwise one
\* value stands for all.
RunPandoc(p) ==
    /\ pc[p] = "pandoc"
    /\ \E outcome \in PandocOutcomes, stderr \in Stderrs :
        LET input == FileAt(fs, Resolve(epub_path_str(p)))
            html == TextFile(EpubToHtml(input.data))
        IN  /\ outcome = "ok" => input.fmt = "epub"
            /\ outcome = "ok" => stderr = <<"b", "a", "d">>
            /\ outcome = "spawn_err" => stderr = <<"b", "a", "d">>
            /\ spawned' = [spawned EXCEPT ![p] =
                              IF outcome = "spawn_err" THEN @ ELSE Append(@, "convert")]
            /\ log' = [log EXCEPT ![p] = Append(@, Effect("convert", outcome = "ok"))]
            /\ IF outcome = "ok"
               THEN /\ fs' = Put(fs, html_path[p], html)
                    /\ produced' = [produced EXCEPT ![p] = html]
               ELSE UNCHANGED <<fs, produced>>
            /\ captured' = [captured EXCEPT ![p] =
                               IF outcome = "exit_fail" THEN stderr ELSE @]
            /\ IF outcome = "spawn_err"
               THEN Return(p, Err("PandocError", <<"spawn">>))
               ELSE IF ~StatusSuccess(outcome)
               THEN Return(p, Err("PandocError", from_utf8_lossy(stderr)))
               ELSE Goto(p, "read")
    /\ UNCHANGED <<args, html_path, md_path, html_content, pre, last>>

\* fs::read_to_string: the file must exist, be readable and be UTF-8 text.
read_to_string(f, path, io_ok) ==
    LET file == FileAt(f, path)
    IN  IF io_ok /\ file.exists /\ file.fmt = "text"
        THEN [ok |-> TRUE, val |-> file.data, err |-> "none"]
        ELSE [ok |-> FALSE, val |-> <<>>,
              err |-> IF ~file.exists THEN "NotFound"
                      ELSE IF ~io_ok THEN "Other" ELSE "InvalidData"]

\* A variant that blames the conversion for an intermediate file it cannot read.
ReadErrorBlamesPandoc(err) == Err("PandocError", <<"read", err>>)

\* The error of a failed read: FileIOError with the cause.
ReadError(err) == Err("FileIOError", <<"read", err>>)

ReadHtml(p) ==
    /\ pc[p] = "read"
    /\ \E io_ok \in BOOLEAN :
        LET r == read_to_string(fs, html_path[p], io_ok)
        IN  /\ log' = [log EXCEPT ![p] = Append(@, Effect("read", r.ok))]
            /\ IF r.ok
               THEN /\ html_content' = [html_content EXCEPT ![p] = r.val]
                    /\ Goto(p, "write")
               ELSE /\ UNCHANGED html_content
                    /\ Return(p, ReadError(r.err))
    /\ UNCHANGED <<fs, args, html_path, md_path, spawned, pre, produced, captured, last>>

WriteOutcomes == {"ok", "create_err", "write_err"}

\* A variant that opens the output file for appending.
WriteAppends(f, path, text, outcome, n) ==
    IF outcome = "ok"
    THEN [ok |-> TRUE,
          fs |-> Put(f, Resolve(path), TextFile(FileAt(f, Resolve(path)).data \o text))]
    ELSE [ok |-> FALSE, fs |-> f]

\* fs::write: File::create (truncating) then write_all.  When the file cannot
\* be created nothing changes; when write_all fails the file holds the first
\* n lines only.
write(f, path, text, outcome, n) ==
    IF outcome = "ok"
    THEN [ok |-> TRUE, fs |-> Put(f, Resolve(path), TextFile(text))]
    ELSE IF outcome = "create_err"
    THEN [ok |-> FALSE, fs |-> f]
    ELSE [ok |-> FALSE, fs |-> Put(f, Resolve(path), TextFile(SubSeq(text, 1, n)))]

\* A variant that hands the HTML on as it was read.
HtmlUntransformed(html) == html

\* markdown_content = parse_html(&html_content)
MarkdownContent(html) == parse_html(html)

\* parse_html and fs::write of the Markdown.
WriteMarkdown(p) ==
    /\ pc[p] = "write"
    /\ LET markdown_content == MarkdownContent(html_content[p])
       IN  \E outcome \in WriteOutcomes, n \in 0..Len(markdown_content) :
            LET w == write(fs, md_path[p], markdown_content, outcome, n)
            IN  /\ outcome = "write_err" => n < Len(markdown_content)
                /\ outcome # "write_err" => n = 0
                /\ fs' = w.fs
                /\ log' = [log EXCEPT ![p] = Append(@, Effect("write", w.ok))]
                /\ IF w.ok
                   THEN Goto(p, "remove")
                   ELSE Return(p, Err("FileIOError", <<"write", outcome>>))
    /\ UNCHANGED <<args, html_path, md_path, html_content, spawned, pre, produced, captured, last>>

\* fs::remove_file: fails when the file is not there or cannot be unlinked.
remove_file(f, path, io_ok) ==
    IF io_ok /\ FileAt(f, path).exists
    THEN [ok |-> TRUE, fs |-> Unlink(f, path), err |-> "none"]
    ELSE [ok |-> FALSE, fs |-> f,
          err |-> IF FileAt(f, path).exists THEN "Other" ELSE "NotFound"]

\* fs::remove_file of the intermediate file, then Ok(()).
RemoveHtml(p) ==
    /\ pc[p] = "remove"
    /\ \E io_ok \in BOOLEAN :
        LET r == remove_file(fs, html_path[p], io_ok)
        IN  /\ fs' = r.fs
            /\ log' = [log EXCEPT ![p] = Append(@, Effect("delete", r.ok))]
            /\ IF r.ok
               THEN Return(p, Ok)
               ELSE Return(p, Err("FileIOError", <<"remove", r.err>>))
    /\ UNCHANGED <<args, html_path, md_path, html_content, spawned, pre, produced, captured, last>>

\* main returns and the process ends; nothing of it remains but the files.
Exit(p) ==
    /\ pc[p] = "done"
    /\ pc' = [pc EXCEPT ![p] = "exited"]
    /\ args' = [args EXCEPT ![p] = <<>>]
    /\ html_path' = [html_path EXCEPT ![p] = <<>>]
    /\ md_path' = [md_path EXCEPT ![p] = <<>>]
    /\ html_content' = [html_content EXCEPT ![p] = <<>>]
    /\ result' = [result EXCEPT ![p] = NoResult]
    /\ log' = [log EXCEPT ![p] = <<>>]
    /\ spawned' = [spawned EXCEPT ![p] = <<>>]
    /\ pre' = fs
    /\ produced' = [produced EXCEPT ![p] = Absent]
    /\ captured' = [captured EXCEPT ![p] = <<>>]
    /\ last' = IF result[p] = Ok /\ Len(args[p]) = 1
               THEN [args |-> args[p], md |-> FileAt(fs, Resolve(md_path[p]))]
               ELSE NoLast
    /\ UNCHANGED fs

Next ==
    \/ \E p \in Procs : Main(p)
    \/ \E p \in Procs : CheckPandoc(p)
    \/ \E p \in Procs : ResolvePaths(p)
    \/ \E p \in Procs : RunPandoc(p)
    \/ \E p \in Procs : ReadHtml(p)
    \/ \E p \in Procs : WriteMarkdown(p)
    \/ \E p \in Procs : RemoveHtml(p)
    \/ \E p \in Procs : Exit(p)

NextConc ==
    \/ \E p \in Procs : MainConc(p)
    \/ \E p \in Procs : CheckPandoc(p)
    \/ \E p \in Procs : ResolvePaths(p)
    \/ \E p \in Procs : RunPandoc(p)
    \/ \E p \in Procs : ReadHtml(p)
    \/ \E p \in Procs : WriteMarkdown(p)
    \/ \E p \in Procs : RemoveHtml(p)
    \/ \E p \in Procs : Exit(p)

\* Invocations one after the other.
Spec == Init /\ [][Next]_vars

\* Invocations that overlap in the same working directory.
SpecConc == InitConc /\ [][NextConc]_vars

\* Command::output() blocks until the subprocess has exited: provided it
\* exits, the step that waits for it is taken.
SubprocessesTerminate ==
    WF_vars(\E p \in Procs : CheckPandoc(p) \/ RunPandoc(p))

\* The other steps are straight-line code on the calling thread.
ThreadRuns ==
    WF_vars(\E p \in Procs :
                ResolvePaths(p) \/ ReadHtml(p) \/ WriteMarkdown(p) \/ RemoveHtml(p))

\* Invocations one after the other, every subprocess terminating.  At most one
\* invocation is under way at a time, so fairness of the steps of all
\* invocations together is fairness of the steps of the one under way.
SpecLive == InitLive /\ [][Next]_vars /\ SubprocessesTerminate /\ ThreadRuns

----------------------------------------------------------------------------
(* Properties *)

Steps(p) == {log[p][i].step : i \in 1..Len(log[p])}
Spawned(p) == {spawned[p][i] : i \in 1..Len(spawned[p])}
Finished(p) == pc[p] = "done"
Called(p) == Len(args[p]) >= 1
Failed(p) == Finished(p) /\ result[p].kind \notin {"none", "Ok"}

\* The input path has another extension than "epub", or none.
NotEpub(p) == Called(p) /\ extension(args[p][1]) # SomeStr(ExtEpub)

\* C1, as stated: a run on an input whose extension is not exactly "epub"
\* fails with InputError and has spawned no subprocess at all.
C1_RejectedBeforeAnySubprocess ==
    \A p \in Procs :
        Finished(p) /\ NotEpub(p) =>
            /\ result[p].kind = "InputError"
            /\ spawned[p] = <<>>

\* C1, amended: a run on an input whose extension is not exactly "epub" fails
\* without ever spawning the conversion subprocess and without touching a
\* file; the dependency check comes first, so the run fails with InputError
\* exactly when that check succeeded (PandocCheckError otherwise), and the
\* only subprocess it may have spawned is `pandoc --version`, once.
C1_RejectedBeforeConversion ==
    \A p \in Procs :
        Finished(p) /\ NotEpub(p) =>
            /\ result[p].kind \in {"InputError", "PandocCheckError"}
            /\ result[p].kind = "InputError" <=> log[p] = <<Effect("dep_check", TRUE)>>
            /\ Steps(p) = {"dep_check"}
            /\ spawned[p] \in {<<>>, <<"version">>}
            /\ fs = pre

C1_Witness ==
    \E p \in Procs :
        /\ Finished(p)
        /\ args[p] = <<InUpper>>
        /\ result[p].kind = "InputError"
        /\ spawned[p] = <<"version">>

\* C2: when the dependency check fails the run fails with PandocCheckError,
\* the conversion subprocess is never spawned, and no file is created or
\* written: the intermediate file and the output path are as they were.
C2_DependencyFailureTouchesNothing ==
    \A p \in Procs :
        Finished(p) /\ Len(log[p]) >= 1 /\ ~log[p][1].ok =>
            /\ result[p].kind = "PandocCheckError"
            /\ "convert" \notin Spawned(p)
            /\ Steps(p) = {"dep_check"}
            /\ fs = pre

C2_Witness ==
    \E p \in Procs :
        /\ Finished(p)
        /\ args[p] = <<InBook>>
        /\ log[p] = <<Effect("dep_check", FALSE)>>
        /\ spawned[p] = <<"version">>
        /\ result[p].kind = "PandocCheckError"

\* C3, as stated: whenever a run returns success, a file exists at its output
\* path and holds parse_html of the HTML pandoc produced in that run, for
\* every output path, also one that names the intermediate file.
C3_SuccessLeavesMarkdown ==
    \A p \in Procs :
        Finished(p) /\ result[p] = Ok =>
            FileAt(fs, Resolve(md_path[p])) = TextFile(parse_html(produced[p].data))

\* s without one trailing occurrence of pat.
StripSuffixOnce(s, pat) ==
    IF Len(pat) > 0 /\ EndsWith(s, pat) THEN SubSeq(s, 1, Len(s) - Len(pat)) ELSE s

\* The file name with one trailing ".epub" removed, plus ".md", in the
\* working directory.
StemMd(input) ==
    join(current_dir, StripSuffixOnce(file_name(input).val, DotEpub) \o DotMd)

\* C4, as stated: with no output argument the output path is the working
\* directory joined with the input's file name, exactly one trailing ".epub"
\* removed, plus ".md".
C4_DerivedPathStripsOneSuffix ==
    \A p \in Procs :
        /\ pc[p] \in {"pandoc", "read", "write", "remove", "done"}
        /\ Len(args[p]) = 1
        /\ md_path[p] # <<>>
        => md_path[p] = StemMd(args[p][1])

StepOrder == <<"dep_check", "convert", "read", "write", "delete">>

\* C5: the side effects of a run happen in the order dependency check,
\* conversion, read, write, delete, each at most once and each only after all
\* the earlier ones succeeded; no file is touched before the dependency check
\* has succeeded and the conversion has started.
C5_EffectsInOrder ==
    \A p \in Procs :
        /\ Len(log[p]) <= Len(StepOrder)
        /\ \A i \in 1..Len(log[p]) :
            /\ log[p][i].step = StepOrder[i]
            /\ i < Len(log[p]) => log[p][i].ok
        /\ pc[p] \notin {"idle", "exited"} /\ Len(log[p]) <= 1 => fs = pre
        /\ Len(spawned[p]) <= 2
        /\ \A i \in 1..Len(spawned[p]) : spawned[p][i] = <<"version", "convert">>[i]
        /\ "convert" \in Spawned(p) => Len(log[p]) >= 2 /\ log[p][1].ok

C5_Witness ==
    \E p \in Procs :
        /\ Finished(p)
        /\ result[p] = Ok
        /\ log[p] = [i \in 1..5 |-> Effect(StepOrder[i], TRUE)]
        /\ spawned[p] = <<"version", "convert">>

LastEffect(p) == log[p][Len(log[p])]

\* C6, as stated: the intermediate file is deleted only by a run whose
\* Markdown write succeeded, and a run whose HTML read or Markdown write fails
\* after a successful conversion ends in failure with the intermediate file
\* present and holding what pandoc wrote.
C6_FailureKeepsIntermediate ==
    \A p \in Procs :
        /\ "delete" \in Steps(p) => Effect("write", TRUE) \in {log[p][i] : i \in 1..Len(log[p])}
        /\ Finished(p) /\ Len(log[p]) \in {3, 4} /\ ~LastEffect(p).ok =>
            /\ Failed(p)
            /\ FileAt(fs, html_path[p]) = produced[p]

\* C7: when deleting the intermediate file fails after the Markdown was
\* written, the run fails with FileIOError from the remove step, and the
\* output path holds the whole transformed content.
C7_DeleteFailureKeepsMarkdown ==
    \A p \in Procs :
        Finished(p) /\ Len(log[p]) = 5 /\ ~LastEffect(p).ok =>
            /\ result[p].kind = "FileIOError"
            /\ result[p].msg[1] = "remove"
            /\ FileAt(fs, Resolve(md_path[p])) = TextFile(parse_html(produced[p].data))

C7_Witness ==
    \E p \in Procs :
        /\ Finished(p)
        /\ args[p] = <<InBook>>
        /\ Len(log[p]) = 5
        /\ log[p][5] = Effect("delete", FALSE)
        /\ result[p].kind = "FileIOError"
        /\ FileAt(fs, join(current_dir, <<"b", "o", "o", "k", ".", "m", "d">>))
             = TextFile(<< <<"#", "Title">>, <<>>, <<"Hello">> >>)
        /\ FileAt(fs, join(current_dir, TempName)).exists

PastResolve(p) == pc[p] \in {"pandoc", "read", "write", "remove"} \/ (Finished(p) /\ Len(log[p]) >= 2)

\* C8: overlapping runs in one working directory all stage their HTML at the
\* same path <cwd>/temp_epub.html, whatever their inputs.  (The witness is the
\* interleaving the claim describes: one run returns success having written
\* the Markdown of the other run's book, and the other run fails because the
\* file it was about to read is gone.)
C8_OneIntermediatePath ==
    \A p, q \in Procs :
        PastResolve(p) /\ PastResolve(q) =>
            /\ html_path[p] = html_path[q]
            /\ html_path[p] = join(current_dir, TempName)

C8_Witness ==
    \E p, q \in Procs :
        /\ p # q
        /\ args[p] = <<InBook>> /\ args[q] = <<InDouble>>
        /\ Finished(p) /\ result[p] = Ok
        /\ produced[p] = TextFile(EpubToHtml(Book1))
        /\ FileAt(fs, Resolve(md_path[p])) = TextFile(parse_html(EpubToHtml(Book2)))
        /\ Finished(q) /\ result[q] = Err("FileIOError", <<"read", "NotFound">>)
        /\ LastEffect(q) = Effect("read", FALSE)

\* C9, as stated: a run that fails before the Markdown write step leaves the
\* file at its output path as it was before the run, for every output path.
C9_FailedRunLeavesOutput ==
    \A p \in Procs :
        LET out == MdPath(args[p][1], md_path_str(p))
        IN  Failed(p) /\ Called(p) /\ "write" \notin Steps(p) /\ out.some =>
                FileAt(fs, Resolve(out.val)) = FileAt(pre, Resolve(out.val))

NoStepTwice(p) ==
    /\ \A i, j \in 1..Len(log[p]) : i # j => log[p][i].step # log[p][j].step
    /\ \A i, j \in 1..Len(spawned[p]) : i # j => spawned[p][i] # spawned[p][j]

FailureEndsRun(p) ==
    \A i \in 1..Len(log[p]) :
        ~log[p][i].ok => i = Len(log[p]) /\ Failed(p)

\* C10: a failing step ends the run: it is the last effect of the run and the
\* run is Failed; a Failed run spawns nothing more and touches no file until
\* the process exits; and no step is attempted twice in a run.
C10_FailureIsTerminal ==
    /\ [](\A p \in Procs : FailureEndsRun(p) /\ NoStepTwice(p))
    /\ [][\A p \in Procs :
            Failed(p) =>
                /\ fs' = fs
                /\ pc'[p] \in {"done", "exited"}
                /\ spawned'[p] \in {spawned[p], <<>>}
                /\ log'[p] \in {log[p], <<>>}]_vars

C10_Witness ==
    \E p \in Procs :
        /\ Failed(p)
        /\ log[p] = <<Effect("dep_check", TRUE), Effect("convert", FALSE)>>
        /\ spawned[p] = <<"version", "convert">>
        /\ result[p].kind = "PandocError"

\* The error kind each failing step is reported under.
KindOfStep(step) ==
    IF step = "dep_check" THEN "PandocCheckError"
    ELSE IF step = "convert" THEN "PandocError"
    ELSE "FileIOError"

\* C11: the kind of a failed run is the kind of the step that failed: no
\* command line -> UsageError; dependency check -> PandocCheckError; failed
\* validation after a successful check -> InputError, or FileIOError when it
\* is the working directory that cannot be resolved; conversion (spawn or
\* exit status) -> PandocError; read, write, delete -> FileIOError.
C11_KindFollowsStep ==
    \A p \in Procs :
        Failed(p) =>
            IF ~Called(p) THEN result[p].kind = "UsageError" /\ log[p] = <<>>
            ELSE IF ~LastEffect(p).ok
            THEN /\ result[p].kind = KindOfStep(LastEffect(p).step)
                 /\ LastEffect(p).step \in {"read", "write", "delete"}
                        => result[p].msg[1] = <<"read", "write", "remove">>[Len(log[p]) - 2]
            ELSE /\ log[p] = <<Effect("dep_check", TRUE)>>
                 /\ \/ result[p].kind = "InputError"
                       /\ result[p].msg[1] \in {"extension", "file_name"}
                    \/ result[p].kind = "FileIOError"
                       /\ result[p].msg = <<"current_dir">>
                       /\ extension(args[p][1]) = SomeStr(ExtEpub)

C11_Witness ==
    \E p \in Procs :
        /\ Failed(p)
        /\ log[p] = <<Effect("dep_check", TRUE), Effect("convert", TRUE), Effect("read", FALSE)>>
        /\ spawned[p] = <<"version", "convert">>
        /\ result[p].kind = "FileIOError"

\* C12: with an output argument the output path is that argument, character
\* for character, and the write step puts the Markdown into the file it names
\* and into no other: apart from the intermediate file, every other file is
\* as it was when the run started.
C12_SuppliedPathVerbatim ==
    \A p \in Procs :
        Len(args[p]) = 2 /\ PastResolve(p) =>
            /\ md_path[p] = args[p][2]
            /\ pc[p] = "remove" =>
                /\ FileAt(fs, Resolve(args[p][2])) = TextFile(parse_html(produced[p].data))
                /\ \A q \in (DOMAIN fs \cup DOMAIN pre) \ {Resolve(args[p][2]), html_path[p]} :
                        FileAt(fs, q) = FileAt(pre, q)

C12_Witness ==
    \E p \in Procs :
        /\ args[p] = <<InSub, OutMd>>
        /\ pc[p] = "remove"
        /\ md_path[p] = OutMd
        /\ FileAt(fs, Resolve(OutMd)) = TextFile(<< <<"#", "Other">>, <<>>, <<"World">> >>)
        /\ FileAt(pre, Resolve(OutMd)) = TextFile(OldMd)

\* C13: a run without output argument that returns Ok leaves no intermediate
\* file, and when the run before it was the same command and returned Ok too,
\* the Markdown at the derived output path is byte for byte what that run left.
C13_SecondRunSameMarkdown ==
    \A p \in Procs :
        Finished(p) /\ result[p] = Ok /\ Len(args[p]) = 1 =>
            /\ ~FileAt(fs, join(current_dir, TempName)).exists
            /\ FileAt(fs, Resolve(md_path[p])).exists
            /\ last.args = args[p] => FileAt(fs, Resolve(md_path[p])) = last.md

C13_Witness ==
    \E p \in Procs :
        /\ Finished(p) /\ result[p] = Ok
        /\ args[p] = <<InBook>>
        /\ last = [args |-> <<InBook>>,
                   md |-> TextFile(<< <<"#", "Title">>, <<>>, <<"Hello">> >>)]
        /\ FileAt(fs, Resolve(md_path[p])) = last.md
        /\ ~FileAt(fs, join(current_dir, TempName)).exists

\* C14: when the conversion subprocess was spawned and exited with a
\* non-success status, the run fails with PandocError, the message carries the
\* captured stderr with every invalid byte replaced by U+FFFD and every other
\* byte kept, the intermediate file is not read, the output is not written,
\* and no file has changed.
C14_ToolFailureCarriesStderr ==
    \A p \in Procs :
        /\ Finished(p)
        /\ Len(log[p]) >= 2 /\ log[p][2] = Effect("convert", FALSE)
        /\ "convert" \in Spawned(p)
        => /\ result[p].kind = "PandocError"
           /\ Len(result[p].msg) = Len(captured[p])
           /\ \A i \in 1..Len(captured[p]) :
                  result[p].msg[i] =
                      IF captured[p][i] = "0xFF" THEN "U+FFFD" ELSE captured[p][i]
           /\ Steps(p) = {"dep_check", "convert"}
           /\ html_content[p] = <<>>
           /\ fs = pre

C14_Witness ==
    \E p \in Procs :
        /\ Finished(p)
        /\ log[p] = <<Effect("dep_check", TRUE), Effect("convert", FALSE)>>
        /\ spawned[p] = <<"version", "convert">>
        /\ captured[p] = <<"b", "0xFF">>
        /\ result[p] = Err("PandocError", <<"b", "U+FFFD">>)
        /\ fs = pre

\* C15, as stated: a run on the empty path or on a path that ends in a
\* directory separator (`dir/`, `book.epub/`) fails with InputError, with or
\* without an output argument.
C15_TrailingSeparatorRejected ==
    \A p \in Procs :
        Finished(p) /\ Called(p) /\ args[p][1] \in {InEmpty, InDirSlash, InBookSlash} =>
            result[p].kind = "InputError"

\* C15, amended: Path::file_name ignores trailing separators.  A run on an
\* input that has no file name (the empty path, `dir/..`) or whose file name
\* has no "epub" extension (`dir/`) fails before the conversion, with or
\* without an output argument: with InputError exactly when the dependency
\* check succeeded, with PandocCheckError otherwise.  `book.epub/` has the
\* file name `book.epub`: it is never rejected with InputError, and once the
\* paths are resolved it is handed to pandoc, which fails on it.
C15_NoFileNameRejectedAfterCheck ==
    \A p \in Procs :
        Finished(p) /\ Called(p) =>
            /\ ~file_name(args[p][1]).some \/ args[p][1] = InDirSlash =>
                  /\ result[p].kind \in {"InputError", "PandocCheckError"}
                  /\ result[p].kind = "InputError" <=> log[p] = <<Effect("dep_check", TRUE)>>
                  /\ result[p].kind = "PandocCheckError" <=> log[p] = <<Effect("dep_check", FALSE)>>
                  /\ "convert" \notin Spawned(p)
                  /\ fs = pre
            /\ args[p][1] = InBookSlash =>
                  /\ result[p].kind \in {"PandocCheckError", "FileIOError", "PandocError"}
                  /\ result[p].kind = "PandocError" <=>
                        log[p] = <<Effect("dep_check", TRUE), Effect("convert", FALSE)>>
                  /\ result[p].kind = "FileIOError" => result[p].msg = <<"current_dir">>

C15_Witness ==
    \E p \in Procs :
        /\ Finished(p)
        /\ args[p] = <<InEmpty, OutMd>>
        /\ ~file_name(args[p][1]).some
        /\ result[p] = Err("InputError", <<"extension">>)
        /\ log[p] = <<Effect("dep_check", TRUE)>>
        /\ spawned[p] = <<"version">>

\* The place of each label in the pipeline.
Rank(label) ==
    CASE label = "idle" -> 0
      [] label = "check_pandoc" -> 1
      [] label = "resolve" -> 2
      [] label = "pandoc" -> 3
      [] label = "read" -> 4
      [] label = "write" -> 5
      [] label = "remove" -> 6
      [] label = "done" -> 7
      [] label = "exited" -> 8

\* Every step of an invocation moves it forward in the pipeline.
OnlyForward ==
    \A p \in Procs :
        pc'[p] # pc[p] \/ log'[p] # log[p] \/ result'[p] # result[p] =>
            Rank(pc'[p]) > Rank(pc[p])

\* C16: provided the subprocesses terminate, a conversion that has started
\* eventually returns Ok or an error; and no step is ever repeated or gone
\* back to: each step moves the invocation forward in the pipeline.
C16_EveryConversionReturns ==
    /\ [][OnlyForward]_vars
    /\ \A p \in 1..MaxLiveRuns :
           pc[p] = "check_pandoc" ~> (pc[p] = "done" /\ result[p].kind # "none")

C16_Witness ==
    \E p \in Procs :
        /\ Finished(p)
        /\ result[p] = Ok
        /\ spawned[p] = <<"version", "convert">>
        /\ Len(log[p]) = 5 /\ \A i \in 1..5 : log[p][i].ok
        /\ args[p] = <<InSub>>

\* C17: in runs that follow one another, a run reads the intermediate file
\* only after its own conversion subprocess exited with success, and what it
\* has read and what it has written to its output come from the HTML pandoc
\* produced in that run, whatever an earlier run left at temp_epub.html; when
\* the conversion fails, the run attempts no read, write or delete and the
\* file at temp_epub.html stays as the run found it.
C17_StaleIntermediateNeverUsed ==
    \A p \in Procs :
        LET temp == join(current_dir, TempName)
        IN  /\ "read" \in Steps(p) =>
                  /\ Len(log[p]) >= 2 /\ log[p][2] = Effect("convert", TRUE)
                  /\ spawned[p] = <<"version", "convert">>
            /\ Len(log[p]) >= 3 /\ log[p][3] = Effect("read", TRUE) =>
                  html_content[p] = produced[p].data
            /\ pc[p] = "remove" =>
                  FileAt(fs, Resolve(md_path[p])) = TextFile(parse_html(produced[p].data))
            /\ Len(log[p]) >= 2 /\ log[p][2] = Effect("convert", FALSE) =>
                  /\ Finished(p)
                  /\ Steps(p) = {"dep_check", "convert"}
                  /\ html_content[p] = <<>>
                  /\ FileAt(fs, temp) = FileAt(pre, temp)
                  /\ FileAt(fs, Resolve(md_path[p])) = FileAt(pre, Resolve(md_path[p]))

C17_Witness ==
    \E p \in Procs :
        /\ FileAt(pre, join(current_dir, TempName)) = TextFile(EpubToHtml(Book1))
        /\ args[p] = <<InDouble>>
        /\ pc[p] = "remove"
        /\ html_content[p] = EpubToHtml(Book2)
        /\ FileAt(fs, Resolve(md_path[p])) = TextFile(parse_html(EpubToHtml(Book2)))

====
